---- MODULE Spec2Model ----
(***************************************************************************)
(* A model of the render service (src/server.js): the job registry, the    *)
(* dedup table inFlightByKey, the render semaphore (acquire / release),    *)
(* the artifact directory and the two compositors.                         *)
(*                                                                         *)
(* The service runs on one event loop.  An action is one run-to-completion *)
(* segment of the code: a macrotask (an HTTP request, the completion of a  *)
(* compose or of a file write) runs only when the microtask queue is       *)
(* empty; the continuation of an `await` whose promise has settled is a    *)
(* microtask and the queue is served first-in first-out.                   *)
(***************************************************************************)
EXTENDS Integers, Sequences, FiniteSets, TLC

\* ------------------------------------------------------------------ bounds
\* Number of POST /jobs requests the model accepts.
MaxJobs == 3
\* Frames of the longest animated layer handed to composeGif on its own.
MaxGifFrames == 3
\* The permits of the render semaphore (process.env.MAX_CONCURRENCY).
MAX_CONCURRENCY == 1

\* ------------------------------------------------------- program constants
MAX_WIDTH == 1024
MAX_HEIGHT == 1024
MAX_LAYERS == 50
MAX_FRAMES == 120
DEFAULT_SIZE == 300

\* ------------------------------------------------------------------ helpers
Max2(a, b) == IF a >= b THEN a ELSE b

RECURSIVE MaxOfSeq(_)
MaxOfSeq(s) == IF s = <<>> THEN 0 ELSE Max2(Head(s), MaxOfSeq(Tail(s)))

RECURSIVE SortedSeq(_)
\* The elements of a finite set of integers in increasing order.
SortedSeq(S) ==
  IF S = {} THEN <<>>
  ELSE LET m == CHOOSE x \in S : \A y \in S : x <= y
       IN <<m>> \o SortedSeq(S \ {m})

SeqToSet(s) == { s[i] : i \in 1..Len(s) }

\* ------------------------------------------------------------------- urls
\* An asset url is a path and an extension; NoUrl is the absent url
\* (undefined / null / '' in the source, all falsy).
NoUrl == [path |-> <<>>, ext |-> ""]
Url(path, ext) == [path |-> path, ext |-> ext]

\* slugify on the keys the model uses.
slugify(name) ==
  CASE name = "Wood 01" -> "wood-01"
    [] name = "wood-01" -> "wood-01"
    [] name = "Sofa"    -> "sofa"
    [] OTHER            -> ""

resolveCdnUrlByLayer(layer) ==
  LET key == slugify(layer.key) IN
  CASE layer.type \in {"room-bg", "room_bg", "roomBg"} ->
         Url(<<"backgrounds", IF key = "" THEN "default" ELSE key>>, "png")
    [] layer.type = "background" -> Url(<<"backgrounds", "default">>, "png")
    [] layer.type = "floor"      -> Url(<<"floor", key>>, "png")
    [] layer.type = "furniture"  -> Url(<<"furniture", key>>, "png")
    [] layer.type \in {"wallpaper-left", "wallpaper_left", "wallpaperLeft"} ->
         Url(<<"wallpaper", "left", key>>, "png")
    [] layer.type \in {"wallpaper-right", "wallpaper_right", "wallpaperRight"} ->
         Url(<<"wallpaper", "right", key>>, "png")
    [] OTHER -> NoUrl

\* ----------------------------------------------------------------- layers
\* An input layer: type, key, an optional explicit url and, for an animated
\* layer, the list of its frames' urls.
Layer(type, key, url, frames) ==
  [type |-> type, key |-> key, url |-> url, frames |-> frames]

isFramesLayer(l) == l.type = "pet_gif_frames"

\* The layer list handed to the compositors (the loop building resolvedLayers).
ResolveOne(l) ==
  IF isFramesLayer(l) THEN <<l>>
  ELSE LET url == IF l.url # NoUrl THEN l.url ELSE resolveCdnUrlByLayer(l)
       IN IF url = NoUrl THEN <<>>
          ELSE <<Layer("static", "", url, <<>>)>>

RECURSIVE resolveLayers(_)
resolveLayers(layersIn) ==
  IF layersIn = <<>> THEN <<>>
  ELSE ResolveOne(Head(layersIn)) \o resolveLayers(Tail(layersIn))

\* Every url a compose of these layers asks the fetcher for.
RECURSIVE LayerUrls(_)
LayerUrls(layers) ==
  IF layers = <<>> THEN {}
  ELSE LET l == Head(layers)
       IN ((IF isFramesLayer(l) THEN SeqToSet(l.frames) ELSE {l.url}) \ {NoUrl})
          \cup LayerUrls(Tail(layers))

\* ------------------------------------------------------------ compositors
\* JavaScript's null and undefined (both falsy), and an exception in flight.
Null == [kind |-> "null"]
Undefined == [kind |-> "undefined"]
Thrown == [kind |-> "throw"]
Truthy(x) == x.kind \notin {"null", "undefined"}

\* fetchImageWithFallback(url) followed by loadImageCached(url, buf): `ok` is
\* the set of urls for which both succeed in this compose call.
loadImage(url, ok) == url \in ok

\* mapWithConcurrency: one slot per item, in the items' order, given what the
\* mapper does on each item; a mapper that throws leaves undefined in its slot.
mapWithConcurrency(mapped) ==
  [i \in 1..Len(mapped) |-> IF mapped[i] = Thrown THEN Undefined ELSE mapped[i]]

\* The mapper of composePng: null for a layer without url or that fails to load.
pngMapper(layer, ok) ==
  IF layer.url = NoUrl THEN Null
  ELSE IF loadImage(layer.url, ok) THEN [kind |-> "img", img |-> layer.url]
  ELSE Null

\* What a compose call returns: whether it rejected and with which error,
\* the format, and per frame the images drawn.
Composed(format, frames, encOk) ==
  [threw |-> ~encOk, error |-> IF encOk THEN "" ELSE "EncodeError",
   format |-> format, frames |-> frames]
Failed(message) == [threw |-> TRUE, error |-> message, format |-> "", frames |-> <<>>]

\* composePng: the images drawn on the one canvas, in drawing order; the
\* call rejects when canvas.encode fails (encOk is FALSE).
composePng(layers, ok, encOk) ==
  LET decoded == mapWithConcurrency([i \in 1..Len(layers) |-> pngMapper(layers[i], ok)])
      drawn == SelectSeq(decoded, Truthy)
  IN Composed("png", <<[i \in 1..Len(drawn) |-> drawn[i].img]>>, encOk)

\* The mapper of composeGif for the frames of an animated layer.
frameMapper(fr, ok) ==
  IF fr = NoUrl THEN Null
  ELSE IF loadImage(fr, ok) THEN [kind |-> "img", img |-> fr]
  ELSE Null

\* The frames of an animated layer that loaded: frames.filter(Boolean).
perFrameOf(layer, ok) ==
  SelectSeq(mapWithConcurrency([i \in 1..Len(layer.frames) |->
                                  frameMapper(layer.frames[i], ok)]), Truthy)

\* loadStatic without its try/catch: a load that fails throws.
loadStatic_noCatch(url, ok) ==
  IF loadImage(url, ok) THEN <<[kind |-> "static", img |-> url]>> ELSE <<Thrown>>

\* A single-url layer in composeGif: pushed when it loads, skipped when not.
loadStatic(url, ok) ==
  IF loadImage(url, ok) THEN <<[kind |-> "static", img |-> url]>> ELSE <<>>

\* One iteration of composeGif's loop over the layers: what it pushes on
\* decodedLayers.
decodeGifLayer(layer, ok) ==
  IF isFramesLayer(layer) /\ Len(layer.frames) > 0
  THEN LET perFrame == perFrameOf(layer, ok)
       IN IF Len(perFrame) > 0
          THEN <<[kind |-> "frames", frames |-> perFrame]>>
          ELSE <<>>
  ELSE IF layer.url # NoUrl THEN loadStatic(layer.url, ok)
  ELSE <<>>

RECURSIVE decodeGifLayers(_, _)
decodeGifLayers(layers, ok) ==
  IF layers = <<>> THEN <<>>
  ELSE decodeGifLayer(Head(layers), ok) \o decodeGifLayers(Tail(layers), ok)

maxFramesOf(decodedLayers) ==
  MaxOfSeq([n \in 1..Len(decodedLayers) |->
              IF decodedLayers[n].kind = "frames"
              THEN Len(decodedLayers[n].frames) ELSE 0])

\* frameAt without the modulo: past its last frame a layer repeats that frame.
frameAt_clamp(l, i) ==
  l.frames[(IF i < Len(l.frames) THEN i ELSE Len(l.frames) - 1) + 1]

\* The image an animated layer draws at output frame i (i counts from 0).
frameAt(l, i) == l.frames[(i % Len(l.frames)) + 1]

\* The images drawn for output frame i (i counts from 0), in drawing order.
drawFrame(decodedLayers, i) ==
  [n \in 1..Len(decodedLayers) |->
     IF decodedLayers[n].kind = "static"
     THEN decodedLayers[n].img
     ELSE frameAt(decodedLayers[n], i).img]

\* composeGif without the fallback to composePng when no frame survived.
composeGif_noFallback(layers, ok, encOk) ==
  LET decodedLayers == decodeGifLayers(layers, ok)
      maxFrames == maxFramesOf(decodedLayers)
  IN Composed("gif", [i \in 1..maxFrames |-> drawFrame(decodedLayers, i - 1)], encOk)

\* composeGif: the format and, per frame appended to the encoder, the images
\* drawn.  An exception escaping the layer loop, or the encoder failing,
\* rejects the call.
composeGif(layers, ok, encOk) ==
  LET decodedLayers == decodeGifLayers(layers, ok)
      maxFrames == maxFramesOf(decodedLayers)
  IN IF \E n \in 1..Len(decodedLayers) : decodedLayers[n] = Thrown
     THEN Failed("FetchError")
     ELSE IF maxFrames = 0
     THEN composePng(layers, ok, encOk)
     ELSE Composed("gif", [i \in 1..maxFrames |-> drawFrame(decodedLayers, i - 1)], encOk)

\* ---------------------------------------------------------------- payloads
Payload(guild, user, width, height, format, layers) ==
  [guild |-> guild, user |-> user, width |-> width, height |-> height,
   format |-> format, layers |-> layers]

\* A width or height of 0 and a format, guild or user of "" stand for a
\* field the request leaves out.
Floor == Layer("floor", "Wood 01", NoUrl, <<>>)
PetA1 == Url(<<"pet", "a1">>, "png")
Pet == Layer("pet_gif_frames", "", NoUrl, <<PetA1>>)

PGifNoFrames == Payload("g", "u", 300, 300, "gif", <<Floor>>)
PAnimated == Payload("g", "u", 0, 0, "", <<Floor, Pet>>)
PNoGuild == Payload("", "u", 300, 300, "", <<Floor>>)
PTooWide == Payload("g", "u", 2048, 300, "", <<Floor>>)

\* The urls the compose calls of these payloads fetch.
AssetUrls == {resolveCdnUrlByLayer(Floor), PetA1}

Payloads == {PGifNoFrames, PAnimated, PNoGuild, PTooWide}

sizeOf(n) == IF n = 0 THEN DEFAULT_SIZE ELSE n

\* The checks of POST /jobs before a job id is allocated; "" when they pass.
frameCountEstimate(layers) ==
  MaxOfSeq([i \in 1..Len(layers) |->
              IF isFramesLayer(layers[i]) THEN Len(layers[i].frames) ELSE 0])

\* validate without the check of the size.
validate_noSize(payload) ==
  IF "layers" \notin DOMAIN payload \/ payload.guild = "" \/ payload.user = ""
  THEN "Invalid payload"
  ELSE IF Len(payload.layers) > MAX_LAYERS THEN "Too many layers"
  ELSE IF frameCountEstimate(payload.layers) > MAX_FRAMES THEN "Too many frames"
  ELSE ""

\* A payload without the field `layers` is a request that leaves it out.
validate(payload) ==
  IF "layers" \notin DOMAIN payload \/ payload.guild = "" \/ payload.user = ""
  THEN "Invalid payload"
  ELSE IF sizeOf(payload.width) > MAX_WIDTH \/ sizeOf(payload.height) > MAX_HEIGHT
  THEN "Size too large"
  ELSE IF Len(payload.layers) > MAX_LAYERS THEN "Too many layers"
  ELSE IF frameCountEstimate(payload.layers) > MAX_FRAMES THEN "Too many frames"
  ELSE ""

\* stableHashPayload: the normalized record whose JSON text is hashed; two
\* payloads have the same fingerprint exactly when the records are equal.
hashLayer(l) ==
  IF isFramesLayer(l)
  THEN [type |-> l.type, key |-> l.key, url |-> l.url, frames |-> l.frames]
  ELSE [type |-> l.type, key |-> l.key, url |-> l.url]

\* stableHashPayload with the guild among the hashed fields.
stableHashPayload_withGuild(payload) ==
  [size   |-> <<sizeOf(payload.width), sizeOf(payload.height)>>,
   layers |-> [i \in 1..Len(payload.layers) |-> hashLayer(payload.layers[i])],
   format |-> IF payload.format = "" THEN "png" ELSE payload.format,
   guild  |-> payload.guild]

stableHashPayload(payload) ==
  [size   |-> <<sizeOf(payload.width), sizeOf(payload.height)>>,
   layers |-> [i \in 1..Len(payload.layers) |-> hashLayer(payload.layers[i])],
   format |-> IF payload.format = "" THEN "png" ELSE payload.format]

wantsGifOf(payload) ==
  payload.format = "gif"
  \/ \E i \in 1..Len(payload.layers) : isFramesLayer(payload.layers[i])

hasFramesOf(resolvedLayers) ==
  \E i \in 1..Len(resolvedLayers) : isFramesLayer(resolvedLayers[i])

\* `${BASE_URL}/out/${cacheKey}.${ext}`, which is also the artifact's file.
OutUrl(cacheKey, ext) == [fp |-> cacheKey, ext |-> ext]

\* formatOfUrl that answers 'png' for every url.
formatOfUrl_png(url) == "png"

\* url.endsWith('.gif') ? 'gif' : 'png'
formatOfUrl(url) == IF url.ext = "gif" THEN "gif" ELSE "png"

\* The compose call of renderPromise with the fetches' outcomes given.
composeFor(payload, ok, encOk) ==
  LET resolvedLayers == resolveLayers(payload.layers)
  IN IF wantsGifOf(payload) /\ hasFramesOf(resolvedLayers)
     THEN composeGif(resolvedLayers, ok, encOk)
     ELSE composePng(resolvedLayers, ok, encOk)

\* tryAcquire comparing with <= : one permit too many.
tryAcquire_offByOne(j, active, queue) ==
  IF active <= MAX_CONCURRENCY
  THEN [activeRenders |-> active + 1, waitQueue |-> queue, resolved |-> <<j>>]
  ELSE [activeRenders |-> active, waitQueue |-> Append(queue, j), resolved |-> <<>>]

\* release that gives the permit back without waking the next waiter.
release_noWake(active, queue) ==
  [activeRenders |-> Max2(0, active - 1), waitQueue |-> queue, resolved |-> <<>>]

\* ---------------------------------------------------------------- semaphore
\* acquire / release on (activeRenders, waitQueue); `resolved` lists the
\* caller whose acquire() promise the call resolves.
tryAcquire(j, active, queue) ==
  IF active < MAX_CONCURRENCY
  THEN [activeRenders |-> active + 1, waitQueue |-> queue, resolved |-> <<j>>]
  ELSE [activeRenders |-> active, waitQueue |-> Append(queue, j), resolved |-> <<>>]

acquire(j, active, queue) == tryAcquire(j, active, queue)

\* release waking the waiter that queued last.
release_lifo(active, queue) ==
  LET a == Max2(0, active - 1)
  IN IF queue = <<>>
     THEN [activeRenders |-> a, waitQueue |-> queue, resolved |-> <<>>]
     ELSE tryAcquire(queue[Len(queue)], a, SubSeq(queue, 1, Len(queue) - 1))


release(active, queue) ==
  LET a == Max2(0, active - 1)
  IN IF queue = <<>>
     THEN [activeRenders |-> a, waitQueue |-> queue, resolved |-> <<>>]
     ELSE tryAcquire(Head(queue), a, Tail(queue))

\* -------------------------------------------------------------------- state
VARIABLES
  jobs,           \* the registry: jobs[id] is the record of job id
  pc,             \* where the render task of each job stands
  joined,         \* the job whose renderPromise a follower awaits (0: none)
  renderPromise,  \* each job's renderPromise: state and value
  inFlightByKey,  \* cacheKey -> the job whose renderPromise is stored
  activeRenders,  \* permits of the render semaphore in use
  waitQueue,      \* jobs whose tryAcquire is queued, oldest first
  microtasks,     \* jobs whose continuation is ready to run, oldest first
  outDir,         \* the artifact files present in out/
  fetched,        \* per job: the outcome of its compose call, once it ran
  inFlightAtSubmit, \* SpecObserved: the jobs of a job's fingerprint rendering at its submission
  gifIn,          \* composeGif called on its own: the arguments
  gifOut,         \* composeGif called on its own: the result
  response,       \* SpecApi: the last HTTP response of POST /jobs and its request
  mwc,            \* SpecMap: the mapWithConcurrency call under way
  cmp,            \* SpecMap: the composePng / composeGif call under way
  fb,             \* SpecFetch: the fetchImageWithFallback call under way
  cache,          \* SpecCache: a SimpleCache, the clock and the last operation
  sem,            \* SpecSem: the acquire() calls made and granted, in order
  hp              \* SpecHash: two payloads, their fingerprints and compose arguments

renderVars == <<jobs, pc, joined, renderPromise, inFlightByKey, activeRenders,
                waitQueue, microtasks, outDir, fetched, inFlightAtSubmit, response>>
gifVars == <<gifIn, gifOut>>
unitVars == <<mwc, cmp, fb, cache, sem, hp>>
vars == <<jobs, pc, joined, renderPromise, inFlightByKey, activeRenders,
          waitQueue, microtasks, outDir, fetched, inFlightAtSubmit, response,
          gifIn, gifOut, mwc, cmp, fb, cache, sem, hp>>

JobIds == 1..MaxJobs
Accepted == 1..Len(jobs)

NotFound == [error |-> "Not found"]
\* GET /jobs/:id
poll(id) == IF id \in Accepted THEN jobs[id] ELSE NotFound

NoCompose == [ran |-> FALSE]
NoPromise == [state |-> "none"]
Pending == [state |-> "pending"]
Resolved(url) == [state |-> "resolved", url |-> url]
Rejected(message) == [state |-> "rejected", error |-> message]

\* No request answered yet; no call of a unit under way.
NoResponse == [status |-> 0]
NoCall == [fn |-> "none"]
UnitInit ==
  /\ mwc = NoCall /\ cmp = NoCall /\ fb = NoCall /\ cache = NoCall /\ sem = NoCall
  /\ hp = NoCall

RenderInit ==
  /\ jobs = <<>>
  /\ pc = [j \in JobIds |-> "idle"]
  /\ joined = [j \in JobIds |-> 0]
  /\ renderPromise = [j \in JobIds |-> NoPromise]
  /\ inFlightByKey = <<>>
  /\ activeRenders = 0
  /\ waitQueue = <<>>
  /\ microtasks = <<>>
  /\ outDir = {}
  /\ fetched = [j \in JobIds |-> NoCompose]
  /\ inFlightAtSubmit = [j \in JobIds |-> {}]
  /\ response = NoResponse

Init ==
  /\ RenderInit
  /\ UnitInit
  /\ gifIn = [layers |-> <<>>, ok |-> {}]
  /\ gifOut = Null

\* Map.set and Map.delete on inFlightByKey.
MapSet(m, k, v) == [x \in DOMAIN m \cup {k} |-> IF x = k THEN v ELSE m[x]]
MapDelete(m, k) == [x \in DOMAIN m \ {k} |-> m[x]]

cacheKeyOf(j) == stableHashPayload(jobs[j].payload)

PendingJob(payload) == [status |-> "pending", payload |-> payload]
DoneJob(url, payload) ==
  [status |-> "done", url |-> url, format |-> formatOfUrl(url), payload |-> payload]
HitJob(url, format, payload) ==
  [status |-> "done", url |-> url, format |-> format, payload |-> payload]
ErrorJob(message) == [status |-> "error", error |-> message]

\* ------------------------------------------------------------------ actions
\* The render task from the creation of renderPromise to `await renderPromise`:
\* the async function runs up to `await acquire()`, then the promise is
\* stored in inFlightByKey.  `rest` is the microtask queue behind the caller.
StartRender(j, cacheKey, rest) ==
  LET a == acquire(j, activeRenders, waitQueue)
  IN /\ activeRenders' = a.activeRenders
     /\ waitQueue' = a.waitQueue
     /\ microtasks' = rest \o a.resolved
     /\ pc' = [pc EXCEPT ![j] = IF a.resolved = <<>> THEN "queued" ELSE "acquired"]
     /\ renderPromise' = [renderPromise EXCEPT ![j] = Pending]
     /\ inFlightByKey' = MapSet(inFlightByKey, cacheKey, j)

\* The jobs awaiting p.catch(...) on the renderPromise of job l, in the order
\* in which they subscribed.
Followers(l) == SortedSeq({f \in JobIds : pc[f] = "joined" /\ joined[f] = l})

\* PostJobs probing <fp>.png before <fp>.gif.
PostJobs_pngFirst(payload) ==
  /\ microtasks = <<>>
  /\ Len(jobs) < MaxJobs
  /\ UNCHANGED <<gifVars, unitVars>>
  /\ IF validate(payload) # ""
     THEN UNCHANGED <<jobs, pc, joined, renderPromise, inFlightByKey, activeRenders,
                      waitQueue, microtasks, outDir, fetched>>
     ELSE
       LET jobId == Len(jobs) + 1
           cacheKey == stableHashPayload(payload)
           outGif == OutUrl(cacheKey, "gif")
           outPng == OutUrl(cacheKey, "png")
       IN /\ UNCHANGED <<outDir, fetched>>
          /\ IF outPng \in outDir
             THEN /\ jobs' = Append(jobs, HitJob(outPng, "png", payload))
                  /\ pc' = [pc EXCEPT ![jobId] = "end"]
                  /\ UNCHANGED <<joined, renderPromise, inFlightByKey,
                                 activeRenders, waitQueue, microtasks>>
             ELSE IF outGif \in outDir
             THEN /\ jobs' = Append(jobs, HitJob(outGif, "gif", payload))
                  /\ pc' = [pc EXCEPT ![jobId] = "end"]
                  /\ UNCHANGED <<joined, renderPromise, inFlightByKey,
                                 activeRenders, waitQueue, microtasks>>
             ELSE IF cacheKey \in DOMAIN inFlightByKey
             THEN LET p == inFlightByKey[cacheKey]
                  IN /\ jobs' = Append(jobs, PendingJob(payload))
                     /\ pc' = [pc EXCEPT ![jobId] = "joined"]
                     /\ joined' = [joined EXCEPT ![jobId] = p]
                     /\ microtasks' = IF renderPromise[p].state = "pending"
                                      THEN <<>> ELSE <<jobId>>
                     /\ UNCHANGED <<renderPromise, inFlightByKey,
                                    activeRenders, waitQueue>>
             ELSE /\ jobs' = Append(jobs, PendingJob(payload))
                  /\ StartRender(jobId, cacheKey, <<>>)
                  /\ UNCHANGED joined


\* POST /jobs: validation, the registry entry, and the render task up to its
\* first await (or to its return on an artifact-cache hit).
PostJobs(payload) ==
  /\ microtasks = <<>>
  /\ Len(jobs) < MaxJobs
  /\ UNCHANGED <<gifVars, unitVars>>
  /\ IF validate(payload) # ""
     THEN UNCHANGED <<jobs, pc, joined, renderPromise, inFlightByKey, activeRenders,
                      waitQueue, microtasks, outDir, fetched>>
     ELSE
       LET jobId == Len(jobs) + 1
           cacheKey == stableHashPayload(payload)
           outGif == OutUrl(cacheKey, "gif")
           outPng == OutUrl(cacheKey, "png")
       IN /\ UNCHANGED <<outDir, fetched>>
          /\ IF outGif \in outDir
             THEN /\ jobs' = Append(jobs, HitJob(outGif, "gif", payload))
                  /\ pc' = [pc EXCEPT ![jobId] = "end"]
                  /\ UNCHANGED <<joined, renderPromise, inFlightByKey,
                                 activeRenders, waitQueue, microtasks>>
             ELSE IF outPng \in outDir
             THEN /\ jobs' = Append(jobs, HitJob(outPng, "png", payload))
                  /\ pc' = [pc EXCEPT ![jobId] = "end"]
                  /\ UNCHANGED <<joined, renderPromise, inFlightByKey,
                                 activeRenders, waitQueue, microtasks>>
             ELSE IF cacheKey \in DOMAIN inFlightByKey
             THEN LET p == inFlightByKey[cacheKey]
                  IN /\ jobs' = Append(jobs, PendingJob(payload))
                     /\ pc' = [pc EXCEPT ![jobId] = "joined"]
                     /\ joined' = [joined EXCEPT ![jobId] = p]
                     /\ microtasks' = IF renderPromise[p].state = "pending"
                                      THEN <<>> ELSE <<jobId>>
                     /\ UNCHANGED <<renderPromise, inFlightByKey,
                                    activeRenders, waitQueue>>
             ELSE /\ jobs' = Append(jobs, PendingJob(payload))
                  /\ StartRender(jobId, cacheKey, <<>>)
                  /\ UNCHANGED joined

\* JoinResume without the `return` after marking the follower done.
JoinResume_noReturn(j) ==
  /\ microtasks # <<>> /\ Head(microtasks) = j
  /\ pc[j] = "joined"
  /\ UNCHANGED <<gifIn, gifOut, unitVars, outDir, fetched, inFlightAtSubmit, response, joined>>
  /\ LET p == renderPromise[joined[j]]
     IN /\ StartRender(j, cacheKeyOf(j), Tail(microtasks))
        /\ IF p.state = "resolved"
           THEN jobs' = [jobs EXCEPT ![j] = DoneJob(p.url, jobs[j].payload)]
           ELSE UNCHANGED jobs

\* JoinResume awaiting p without .catch: the leader's rejection is thrown in
\* the follower and lands in its catch block.
JoinResume_inherit(j) ==
  /\ microtasks # <<>> /\ Head(microtasks) = j
  /\ pc[j] = "joined"
  /\ UNCHANGED <<gifIn, gifOut, unitVars, outDir, fetched, inFlightAtSubmit, response, joined>>
  /\ LET p == renderPromise[joined[j]]
     IN /\ jobs' = [jobs EXCEPT ![j] = IF p.state = "resolved"
                                       THEN DoneJob(p.url, jobs[j].payload)
                                       ELSE ErrorJob(p.error)]
        /\ pc' = [pc EXCEPT ![j] = "end"]
        /\ microtasks' = Tail(microtasks)
        /\ UNCHANGED <<renderPromise, inFlightByKey, activeRenders, waitQueue>>

Submit(payload) == PostJobs(payload) /\ UNCHANGED <<inFlightAtSubmit, response>>

\* POST /jobs, with the jobs of the same fingerprint whose render is under
\* way at that moment written down for the accepted job.
SubmitObserved(payload) ==
  /\ PostJobs(payload)
  /\ UNCHANGED response
  /\ inFlightAtSubmit' =
       IF validate(payload) # "" THEN inFlightAtSubmit
       ELSE [inFlightAtSubmit EXCEPT ![Len(jobs) + 1] =
               {i \in Accepted : /\ renderPromise[i].state = "pending"
                                 /\ cacheKeyOf(i) = stableHashPayload(payload)}]

\* The continuation of `await p.catch(() => null)` in a follower.
JoinResume(j) ==
  /\ microtasks # <<>> /\ Head(microtasks) = j
  /\ pc[j] = "joined"
  /\ UNCHANGED <<gifIn, gifOut, unitVars, outDir, fetched, inFlightAtSubmit, response, joined>>
  /\ LET p == renderPromise[joined[j]]
     IN IF p.state = "resolved"
        THEN /\ jobs' = [jobs EXCEPT ![j] = DoneJob(p.url, jobs[j].payload)]
             /\ pc' = [pc EXCEPT ![j] = "end"]
             /\ microtasks' = Tail(microtasks)
             /\ UNCHANGED <<renderPromise, inFlightByKey, activeRenders, waitQueue>>
        ELSE /\ StartRender(j, cacheKeyOf(j), Tail(microtasks))
             /\ UNCHANGED jobs

\* The continuation of `await acquire()`: the compose call starts.
AcquireResume(j) ==
  /\ microtasks # <<>> /\ Head(microtasks) = j
  /\ pc[j] = "acquired"
  /\ pc' = [pc EXCEPT ![j] = "compose"]
  /\ microtasks' = Tail(microtasks)
  /\ UNCHANGED <<jobs, joined, renderPromise, inFlightByKey, activeRenders,
                 waitQueue, outDir, fetched, inFlightAtSubmit, response,
                 gifIn, gifOut, unitVars>>

\* renderPromise settles: the `finally` releases the semaphore, then the
\* continuations of everyone awaiting the promise are queued.
Settle(j, result) ==
  LET r == release(activeRenders, waitQueue)
  IN /\ activeRenders' = r.activeRenders
     /\ waitQueue' = r.waitQueue
     /\ renderPromise' = [renderPromise EXCEPT ![j] = result]
     /\ pc' = [x \in JobIds |->
                 IF x = j THEN "settled"
                 ELSE IF x \in SeqToSet(r.resolved) THEN "acquired"
                 ELSE pc[x]]
     /\ microtasks' = r.resolved \o <<j>> \o Followers(j)

\* The compose call of job j completes: `ok` are the urls that loaded,
\* encOk tells whether the encoder succeeded.
ComposeDone(j, ok, encOk) ==
  /\ microtasks = <<>>
  /\ pc[j] = "compose"
  /\ ok \subseteq LayerUrls(resolveLayers(jobs[j].payload.layers))
  /\ LET res == composeFor(jobs[j].payload, ok, encOk)
     IN /\ fetched' = [fetched EXCEPT ![j] =
                         [ran |-> TRUE, ok |-> ok, format |-> res.format]]
        /\ IF res.threw
           THEN Settle(j, Rejected(res.error))
           ELSE /\ pc' = [pc EXCEPT ![j] = "write"]
                /\ UNCHANGED <<renderPromise, activeRenders, waitQueue, microtasks>>
  /\ UNCHANGED <<jobs, joined, inFlightByKey, outDir, inFlightAtSubmit, response,
                 gifIn, gifOut, unitVars>>

\* The artifact of job j's render.
outPathOf(j) == OutUrl(cacheKeyOf(j), IF fetched[j].format = "gif" THEN "gif" ELSE "png")

\* fsp.writeFile resolves: the artifact is in out/.
WriteDone(j) ==
  /\ microtasks = <<>>
  /\ pc[j] = "write"
  /\ outDir' = outDir \cup {outPathOf(j)}
  /\ Settle(j, Resolved(outPathOf(j)))
  /\ UNCHANGED <<jobs, joined, inFlightByKey, fetched, inFlightAtSubmit, response,
                 gifIn, gifOut, unitVars>>

\* fsp.writeFile rejects.  It is not atomic: when it fails after it opened
\* the file (`partial`), the truncated file stays in out/.
WriteFail(j, partial) ==
  /\ microtasks = <<>>
  /\ pc[j] = "write"
  /\ outDir' = IF partial THEN outDir \cup {outPathOf(j)} ELSE outDir
  /\ Settle(j, Rejected("IOError"))
  /\ UNCHANGED <<jobs, joined, inFlightByKey, fetched, inFlightAtSubmit, response,
                 gifIn, gifOut, unitVars>>

\* AwaitRenderResume without the catch block: a failed render leaves the
\* registry entry as it was.
AwaitRenderResume_noCatch(j) ==
  /\ microtasks # <<>> /\ Head(microtasks) = j
  /\ pc[j] = "settled"
  /\ microtasks' = Tail(microtasks)
  /\ pc' = [pc EXCEPT ![j] = "end"]
  /\ LET p == renderPromise[j]
     IN IF p.state = "resolved"
        THEN /\ inFlightByKey' = MapDelete(inFlightByKey, cacheKeyOf(j))
             /\ jobs' = [jobs EXCEPT ![j] = DoneJob(p.url, jobs[j].payload)]
        ELSE UNCHANGED <<jobs, inFlightByKey>>
  /\ UNCHANGED <<joined, renderPromise, activeRenders, waitQueue, outDir,
                 fetched, inFlightAtSubmit, response, gifIn, gifOut, unitVars>>

\* The continuation of `await renderPromise` in the job that rendered.
AwaitRenderResume(j) ==
  /\ microtasks # <<>> /\ Head(microtasks) = j
  /\ pc[j] = "settled"
  /\ microtasks' = Tail(microtasks)
  /\ pc' = [pc EXCEPT ![j] = "end"]
  /\ LET p == renderPromise[j]
     IN IF p.state = "resolved"
        THEN /\ inFlightByKey' = MapDelete(inFlightByKey, cacheKeyOf(j))
             /\ jobs' = [jobs EXCEPT ![j] = DoneJob(p.url, jobs[j].payload)]
        ELSE /\ jobs' = [jobs EXCEPT ![j] = ErrorJob(p.error)]
             /\ UNCHANGED inFlightByKey
  /\ UNCHANGED <<joined, renderPromise, activeRenders, waitQueue, outDir,
                 fetched, inFlightAtSubmit, response, gifIn, gifOut, unitVars>>

\* The steps of the render tasks.
TaskStep ==
  \/ \E j \in JobIds : JoinResume(j)
  \/ \E j \in JobIds : AcquireResume(j)
  \/ \E j \in JobIds : \E ok \in SUBSET AssetUrls :
       \E encOk \in BOOLEAN : ComposeDone(j, ok, encOk)
  \/ \E j \in JobIds : WriteDone(j)
  \/ \E j \in JobIds : \E partial \in BOOLEAN : WriteFail(j, partial)
  \/ \E j \in JobIds : AwaitRenderResume(j)

Next ==
  \/ \E payload \in Payloads : Submit(payload)
  \/ TaskStep

Spec == Init /\ [][Next]_vars

NextObserved ==
  \/ \E payload \in Payloads : SubmitObserved(payload)
  \/ TaskStep

SpecObserved == Init /\ [][NextObserved]_vars

\* ------------------------------------------------- composeGif on its own
GifStatic == Layer("static", "", Url(<<"s">>, "png"), <<>>)
Anim(name, n) ==
  Layer("pet_gif_frames", "", NoUrl, [i \in 1..n |-> Url(<<name, ToString(i)>>, "png")])
\* An animated layer one of whose frames has no url.
AnimHole == Layer("pet_gif_frames", "", NoUrl,
                  <<Url(<<"c", "1">>, "png"), NoUrl, Url(<<"c", "2">>, "png")>>)

GifLayerLists ==
  { <<GifStatic, Anim("a", MaxGifFrames), Anim("b", MaxGifFrames)>>,
    <<AnimHole, GifStatic, Anim("b", 2)>> }

GifInputs ==
  UNION { {[layers |-> L, ok |-> o] : o \in SUBSET LayerUrls(L)} : L \in GifLayerLists }

InitGif ==
  /\ RenderInit
  /\ UnitInit
  /\ gifIn \in GifInputs
  /\ gifOut = Null

ComposeGifCall ==
  /\ gifOut = Null
  /\ gifIn.layers # <<>>
  /\ gifOut' = composeGif(gifIn.layers, gifIn.ok, TRUE)
  /\ UNCHANGED <<gifIn, renderVars, unitVars>>

NextGif == ComposeGifCall

SpecGif == InitGif /\ [][NextGif]_vars

\* The outcomes the environment owes the service arrive: a continuation that
\* is ready runs, a compose call and a file write complete or fail.
FairSpec ==
  /\ Spec
  /\ \A j \in JobIds : WF_vars(JoinResume(j))
  /\ \A j \in JobIds : WF_vars(AcquireResume(j))
  /\ \A j \in JobIds : WF_vars(AwaitRenderResume(j))
  /\ \A j \in JobIds : WF_vars(\E ok \in SUBSET AssetUrls : \E encOk \in BOOLEAN :
                                 ComposeDone(j, ok, encOk))
  /\ \A j \in JobIds : WF_vars(WriteDone(j) \/ \E partial \in BOOLEAN : WriteFail(j, partial))

\* ------------------------------------------- mapWithConcurrency, step by step
\* Items of a mapWithConcurrency call made on its own.
MaxItems == 3
\* The limit L of a call (FRAME_FETCH_CONCURRENCY, STATIC_FETCH_CONCURRENCY).
MapLimit == 2

Min2(a, b) == IF a <= b THEN a ELSE b

\* results.push in place of results[i] = res: slots filled in completion order.
storeResult_push(results, i, res) ==
  LET free == {k \in 1..Len(results) : results[k] = Undefined}
  IN IF free = {} THEN results
     ELSE [results EXCEPT ![CHOOSE k \in free : \A h \in free : k <= h] = res]

\* results[i] = res
storeResult(results, i, res) == [results EXCEPT ![i] = res]

\* next() with `active <= limit` as the loop test: one mapper too many.
mwcNext_overLimit(m) ==
  IF m.index >= Len(m.mapped) /\ m.active = 0
  THEN [m EXCEPT !.promise = "resolved"]
  ELSE LET k == Max2(0, Min2(m.limit + 1 - m.active, Len(m.mapped) - m.index))
           new == (m.index + 1)..(m.index + k)
       IN [m EXCEPT !.index = @ + k, !.active = @ + k,
                    !.running = @ \cup new,
                    !.starts = [i \in 1..Len(m.mapped) |->
                                  IF i \in new THEN @[i] + 1 ELSE @[i]]]

\* next(): resolve once every item is started and none is active; otherwise
\* start items while a slot is free.
mwcNext(m) ==
  IF m.index >= Len(m.mapped) /\ m.active = 0
  THEN [m EXCEPT !.promise = "resolved"]
  ELSE LET k == Max2(0, Min2(m.limit - m.active, Len(m.mapped) - m.index))
           new == (m.index + 1)..(m.index + k)
       IN [m EXCEPT !.index = @ + k, !.active = @ + k,
                    !.running = @ \cup new,
                    !.starts = [i \in 1..Len(m.mapped) |->
                                  IF i \in new THEN @[i] + 1 ELSE @[i]]]

\* The call mapWithConcurrency(items, limit, mapper) up to its return:
\* mapped[i] is what mapper(items[i]) will settle with (Thrown: it rejects).
\* `running`, `starts` and `order` record which mappers are started and not
\* settled, how often each was started and in which order they settled.
mwcCall(mapped, limit) ==
  mwcNext([fn |-> "map", mapped |-> mapped, limit |-> limit,
           results |-> [i \in 1..Len(mapped) |-> Undefined],
           index |-> 0, active |-> 0, promise |-> "pending",
           running |-> {}, starts |-> [i \in 1..Len(mapped) |-> 0],
           order |-> <<>>])

\* mwcSettle without the .catch: a mapper that throws rejects the whole call.
mwcSettle_rejects(m, i) ==
  IF m.mapped[i] = Thrown
  THEN [m EXCEPT !.promise = "rejected", !.active = @ - 1, !.running = @ \ {i},
                 !.order = Append(@, i)]
  ELSE mwcNext([m EXCEPT !.results = storeResult(@, i, m.mapped[i]),
                         !.active = @ - 1, !.running = @ \ {i},
                         !.order = Append(@, i)])


\* The mapper of item i settles: .then stores its result, .catch stores
\* undefined, .finally frees the slot and calls next().
mwcSettle(m, i) ==
  mwcNext([m EXCEPT
             !.results = storeResult(@, i, IF m.mapped[i] = Thrown
                                           THEN Undefined ELSE m.mapped[i]),
             !.active = @ - 1,
             !.running = @ \ {i},
             !.order = Append(@, i)])

MapperSettles(i) ==
  /\ mwc # NoCall
  /\ i \in mwc.running
  /\ mwc' = mwcSettle(mwc, i)
  /\ UNCHANGED <<cmp, fb, cache, sem, hp, renderVars, gifVars>>

\* ------------------------------------------------ the compositors, step by step
S1 == Layer("static", "", Url(<<"s1">>, "png"), <<>>)
S2 == Layer("static", "", Url(<<"s2">>, "png"), <<>>)
S3 == Layer("static", "", Url(<<"s3">>, "png"), <<>>)

PngLayerLists == { <<S1, S2, S3>> }
DrawGifLayerLists == { <<S1, Anim("a", MaxItems), S2, Anim("b", 2)>> }

\* What a mapper can settle with in a call made on its own.
MapperResults == {[kind |-> "img", img |-> Url(<<"x">>, "png")], Null, Thrown}
MappedLists == UNION {[1..n -> MapperResults] : n \in 0..MaxItems}

\* A compose call: the function, its layers, the urls that load, the limit
\* of its mapWithConcurrency calls, the position of composeGif's layer loop,
\* decodedLayers and the result.
ComposeCall(fn, layers, ok, limit) ==
  [fn |-> fn, layers |-> layers, ok |-> ok, limit |-> limit, phase |-> "start",
   li |-> 1, decodedLayers |-> <<>>, out |-> Null]

InitMap ==
  /\ RenderInit
  /\ gifIn = [layers |-> <<>>, ok |-> {}] /\ gifOut = Null
  /\ fb = NoCall /\ cache = NoCall /\ sem = NoCall /\ hp = NoCall
  /\ \E limit \in 1..MapLimit :
       \/ /\ cmp = NoCall
          /\ \E mapped \in MappedLists : mwc = mwcCall(mapped, limit)
       \/ /\ mwc = NoCall
          /\ \E L \in PngLayerLists : \E ok \in SUBSET LayerUrls(L) :
               cmp = ComposeCall("png", L, ok, limit)
       \/ /\ mwc = NoCall
          /\ \E L \in DrawGifLayerLists : \E ok \in SUBSET LayerUrls(L) :
               cmp = ComposeCall("gif", L, ok, limit)

\* composePng up to `await mapWithConcurrency(layers, ...)`; also the call
\* composeGif makes when no frame survived.
PngStart ==
  /\ cmp # NoCall /\ cmp.fn = "png" /\ cmp.phase = "start"
  /\ mwc' = mwcCall([i \in 1..Len(cmp.layers) |-> pngMapper(cmp.layers[i], cmp.ok)],
                    cmp.limit)
  /\ cmp' = [cmp EXCEPT !.phase = "mapping"]
  /\ UNCHANGED <<fb, cache, sem, hp, renderVars, gifVars>>

\* composePng after the await: the draw loop over `decoded`.
PngDraw ==
  /\ cmp # NoCall /\ cmp.fn = "png" /\ cmp.phase = "mapping"
  /\ mwc.promise = "resolved"
  /\ LET drawn == SelectSeq(mwc.results, Truthy)
     IN cmp' = [cmp EXCEPT !.phase = "done",
                  !.out = Composed("png", <<[i \in 1..Len(drawn) |-> drawn[i].img]>>, TRUE)]
  /\ UNCHANGED <<mwc, fb, cache, sem, hp, renderVars, gifVars>>

\* One turn of composeGif's loop over the layers, up to its await.
GifLayerStart ==
  /\ cmp # NoCall /\ cmp.fn = "gif" /\ cmp.phase \in {"start", "loop"}
  /\ cmp.li <= Len(cmp.layers)
  /\ LET layer == cmp.layers[cmp.li]
     IN IF isFramesLayer(layer) /\ Len(layer.frames) > 0
        THEN /\ mwc' = mwcCall([i \in 1..Len(layer.frames) |->
                                  frameMapper(layer.frames[i], cmp.ok)], cmp.limit)
             /\ cmp' = [cmp EXCEPT !.phase = "mapping"]
        ELSE /\ cmp' = [cmp EXCEPT
                          !.phase = "loop", !.li = @ + 1,
                          !.decodedLayers =
                             IF layer.url # NoUrl THEN @ \o loadStatic(layer.url, cmp.ok)
                             ELSE @]
             /\ UNCHANGED mwc
  /\ UNCHANGED <<fb, cache, sem, hp, renderVars, gifVars>>

\* The frames of an animated layer are in: frames.filter(Boolean) and the push.
GifLayerEnd ==
  /\ cmp # NoCall /\ cmp.fn = "gif" /\ cmp.phase = "mapping"
  /\ mwc.promise = "resolved"
  /\ LET perFrame == SelectSeq(mwc.results, Truthy)
     IN cmp' = [cmp EXCEPT
                  !.phase = "loop", !.li = @ + 1,
                  !.decodedLayers = IF Len(perFrame) > 0
                                    THEN Append(@, [kind |-> "frames", frames |-> perFrame])
                                    ELSE @]
  /\ UNCHANGED <<mwc, fb, cache, sem, hp, renderVars, gifVars>>

\* composeGif after the layer loop: the fallback to composePng, or the frames.
GifFinish ==
  /\ cmp # NoCall /\ cmp.fn = "gif" /\ cmp.phase \in {"start", "loop"}
  /\ cmp.li > Len(cmp.layers)
  /\ LET maxFrames == maxFramesOf(cmp.decodedLayers)
     IN IF maxFrames = 0
        THEN cmp' = [cmp EXCEPT !.fn = "png", !.phase = "start"]
        ELSE cmp' = [cmp EXCEPT !.phase = "done",
                       !.out = Composed("gif",
                                 [i \in 1..maxFrames |-> drawFrame(cmp.decodedLayers, i - 1)],
                                 TRUE)]
  /\ UNCHANGED <<mwc, fb, cache, sem, hp, renderVars, gifVars>>

NextMap ==
  \/ \E i \in 1..MaxItems : MapperSettles(i)
  \/ PngStart
  \/ PngDraw
  \/ GifLayerStart
  \/ GifLayerEnd
  \/ GifFinish

SpecMap == InitMap /\ [][NextMap]_vars


\* ------------------------------------------------- POST /jobs and its response
\* Jobs SpecApi accepts.
MaxApiJobs == 2

\* PAnimated from another guild and user, with a field the service does not know.
PAnimatedOther ==
  [guild |-> "h", user |-> "v", width |-> 0, height |-> 0, format |-> "",
   layers |-> <<Floor, Pet>>, note |-> "x"]
\* The largest size accepted.
PMaxSize == Payload("g", "u", MAX_WIDTH, MAX_HEIGHT, "", <<Floor>>)
PNoUser == Payload("g", "", 300, 300, "", <<Floor>>)
PNoLayers == [guild |-> "g", user |-> "u", width |-> 300, height |-> 300, format |-> ""]
PTooTall == Payload("g", "u", 300, MAX_HEIGHT + 1, "", <<Floor>>)
PTooManyLayers == Payload("g", "u", 300, 300, "", [i \in 1..(MAX_LAYERS + 1) |-> Floor])
PTooManyFrames ==
  Payload("g", "u", 300, 300, "",
          <<Layer("pet_gif_frames", "", NoUrl, [i \in 1..(MAX_FRAMES + 1) |-> PetA1])>>)

ApiPayloads ==
  {PAnimated, PAnimatedOther, PMaxSize,
   PNoGuild, PNoUser, PNoLayers, PTooWide, PTooTall, PTooManyLayers, PTooManyFrames}

\* res.status(400).json({ error }) or res.json({ jobId }), with the request body.
respond(payload, jobId) ==
  IF validate(payload) # ""
  THEN [status |-> 400, error |-> validate(payload), payload |-> payload]
  ELSE [status |-> 200, jobId |-> jobId, payload |-> payload]

\* POST /jobs with its response.
SubmitApi(payload) ==
  /\ Len(jobs) < MaxApiJobs
  /\ PostJobs(payload)
  /\ response' = respond(payload, Len(jobs) + 1)
  /\ UNCHANGED inFlightAtSubmit

NextApi ==
  \/ \E payload \in ApiPayloads : SubmitApi(payload)
  \/ TaskStep

SpecApi == Init /\ [][NextApi]_vars


\* ----------------------------------------------- the semaphore on its own
\* Callers of acquire(), and acquire() calls made in a run.
MaxCallers == 3
MaxSemCalls == 4

Callers == 1..MaxCallers

\* `called` lists the callers in the order of their acquire() calls,
\* `granted` those whose promise resolved, in that order; `holding` are the
\* callers between the resolution of acquire() and their release(); `wakes`
\* counts the permits release() handed to a waiter while another one waited.
InitSem ==
  /\ RenderInit
  /\ gifIn = [layers |-> <<>>, ok |-> {}] /\ gifOut = Null
  /\ mwc = NoCall /\ cmp = NoCall /\ fb = NoCall /\ cache = NoCall /\ hp = NoCall
  /\ sem = [fn |-> "sem", called |-> <<>>, granted |-> <<>>, holding |-> {}, wakes |-> 0]

\* A caller that neither waits for nor holds a permit calls acquire().
SemAcquire(c) ==
  /\ sem # NoCall
  /\ Len(sem.called) < MaxSemCalls
  /\ c \notin sem.holding /\ c \notin SeqToSet(waitQueue)
  /\ LET a == acquire(c, activeRenders, waitQueue)
     IN /\ activeRenders' = a.activeRenders
        /\ waitQueue' = a.waitQueue
        /\ sem' = [sem EXCEPT !.called = Append(@, c),
                              !.granted = @ \o a.resolved,
                              !.holding = @ \cup SeqToSet(a.resolved)]
  /\ UNCHANGED <<jobs, pc, joined, renderPromise, inFlightByKey, microtasks, outDir,
                 fetched, inFlightAtSubmit, response, gifVars, mwc, cmp, fb, cache, hp>>

\* A caller that holds a permit calls release().
SemRelease(c) ==
  /\ sem # NoCall
  /\ c \in sem.holding
  /\ LET r == release(activeRenders, waitQueue)
     IN /\ activeRenders' = r.activeRenders
        /\ waitQueue' = r.waitQueue
        /\ sem' = [sem EXCEPT !.granted = @ \o r.resolved,
                              !.holding = (@ \ {c}) \cup SeqToSet(r.resolved),
                              !.wakes = IF r.waitQueue # <<>>
                                        THEN @ + Len(r.resolved) ELSE @]
  /\ UNCHANGED <<jobs, pc, joined, renderPromise, inFlightByKey, microtasks, outDir,
                 fetched, inFlightAtSubmit, response, gifVars, mwc, cmp, fb, cache, hp>>

NextSem ==
  \/ \E c \in Callers : SemAcquire(c)
  \/ \E c \in Callers : SemRelease(c)

SpecSem == InitSem /\ [][NextSem]_vars


\* ------------------------------------------- fetchImageWithFallback on its own
\* Tokens of the longest url handed to fetchImageWithFallback.
MaxUrlLen == 3

\* A url as text: a sequence of tokens, "?" starting the query string.
UrlTokens == {"a", ".png", ".PNG", ".gif", ".jpg", "?", "q"}
TextUrls == UNION {[1..n -> UrlTokens] : n \in 0..MaxUrlLen}

\* The extensions /\.png/i and /\.gif/i match.
PngExts == {".png", ".PNG"}
GifExts == {".gif"}

\* Where /\.ext(\?.*)?$/i matches in url: the leftmost token of exts that
\* ends the url or is followed by "?"; 0 when there is no match.
extMatch(url, exts) ==
  LET at == {i \in 1..Len(url) : url[i] \in exts /\ (i = Len(url) \/ url[i + 1] = "?")}
  IN IF at = {} THEN 0 ELSE CHOOSE i \in at : \A h \in at : i <= h

\* swapImageExtension that only turns .png into .gif.
swapImageExtension_pngOnly(url) ==
  IF url = <<>> THEN Null
  ELSE IF extMatch(url, PngExts) # 0
  THEN [kind |-> "url", url |-> [url EXCEPT ![extMatch(url, PngExts)] = ".gif"]]
  ELSE Null

\* swapImageExtension: the url with .png turned into .gif or .gif into .png,
\* the query string kept; null for any other url.
swapImageExtension(url) ==
  IF url = <<>> THEN Null
  ELSE IF extMatch(url, PngExts) # 0
  THEN [kind |-> "url", url |-> [url EXCEPT ![extMatch(url, PngExts)] = ".gif"]]
  ELSE IF extMatch(url, GifExts) # 0
  THEN [kind |-> "url", url |-> [url EXCEPT ![extMatch(url, GifExts)] = ".png"]]
  ELSE Null

\* fetchImageWithFallback(url) up to `await fetchBuffer(url)`: `attempts`
\* lists the urls handed to fetchBuffer, `first` and `second` tell how the
\* two calls ended.
fetchCall(url) ==
  [fn |-> "fetch", url |-> url, attempts |-> <<url>>, first |-> "pending",
   second |-> "none", promise |-> "pending"]

InitFetch ==
  /\ RenderInit
  /\ gifIn = [layers |-> <<>>, ok |-> {}] /\ gifOut = Null
  /\ mwc = NoCall /\ cmp = NoCall /\ cache = NoCall /\ sem = NoCall /\ hp = NoCall
  /\ \E url \in TextUrls : fb = fetchCall(url)

\* fetchBuffer(url) settles: the buffer is returned, or the catch block asks
\* swapImageExtension for the other url and fetches it, or rethrows.
FirstFetchSettles(ok) ==
  /\ fb # NoCall /\ fb.first = "pending"
  /\ LET alt == swapImageExtension(fb.url)
     IN fb' = IF ok THEN [fb EXCEPT !.first = "ok", !.promise = "resolved"]
              ELSE IF Truthy(alt)
              THEN [fb EXCEPT !.first = "failed", !.second = "pending",
                              !.attempts = Append(@, alt.url)]
              ELSE [fb EXCEPT !.first = "failed", !.promise = "rejected"]
  /\ UNCHANGED <<mwc, cmp, cache, sem, hp, renderVars, gifVars>>

\* fetchBuffer(alt) settles.
SecondFetchSettles(ok) ==
  /\ fb # NoCall /\ fb.second = "pending"
  /\ fb' = IF ok THEN [fb EXCEPT !.second = "ok", !.promise = "resolved"]
           ELSE [fb EXCEPT !.second = "failed", !.promise = "rejected"]
  /\ UNCHANGED <<mwc, cmp, cache, sem, hp, renderVars, gifVars>>

NextFetch ==
  \/ \E ok \in BOOLEAN : FirstFetchSettles(ok)
  \/ \E ok \in BOOLEAN : SecondFetchSettles(ok)

SpecFetch == InitFetch /\ [][NextFetch]_vars


\* ------------------------------------------------------ SimpleCache on its own
\* Largest capacity `max`, last value of the clock, number of set() calls.
CacheMax == 3
MaxTime == 3
MaxSets == 5

CacheKeys == {"k1", "k2", "k3"}
\* ttlMs: 0 stands for an entry that never expires.
CacheTtls == {0, 1}

\* The Map of a SimpleCache: its entries in insertion order of their keys.
\* `born` numbers the set() call that put the key in.
keyIndex(map, key) ==
  IF \E i \in 1..Len(map) : map[i].key = key
  THEN CHOOSE i \in 1..Len(map) : map[i].key = key
  ELSE 0

\* Map.prototype.delete of the key at position i.
mapDeleteAt(map, i) ==
  [h \in 1..(Len(map) - 1) |-> IF h < i THEN map[h] ELSE map[h + 1]]

\* Map.prototype.set: a present key keeps its place and gets the new entry,
\* a new key goes last.
mapSet(map, key, entry, n) ==
  LET i == keyIndex(map, key)
  IN IF i # 0
     THEN [map EXCEPT ![i] = [entry EXCEPT !.born = map[i].born]]
     ELSE Append(map, [entry EXCEPT !.born = n])

\* new SimpleCache(max), the clock at `now`.
newCache(max, now) ==
  [fn |-> "cache", max |-> max, map |-> <<>>, now |-> now, sets |-> 0,
   last |-> [op |-> "new", key |-> "", result |-> Undefined],
   evicted |-> FALSE, expired |-> FALSE]

\* SimpleCache.get
cacheGet(c, key) ==
  LET i == keyIndex(c.map, key)
  IN IF i = 0
     THEN [c EXCEPT !.last = [op |-> "get", key |-> key, result |-> Undefined]]
     ELSE IF c.map[i].expiresAt # 0 /\ c.map[i].expiresAt < c.now
     THEN [c EXCEPT !.map = mapDeleteAt(c.map, i), !.expired = TRUE,
                    !.last = [op |-> "get", key |-> key, result |-> Undefined]]
     ELSE [c EXCEPT !.last = [op |-> "get", key |-> key,
                              result |-> [kind |-> "value", value |-> c.map[i].value]]]

\* SimpleCache.set that drops the newest key of a full cache.
cacheSet_evictNewest(c, key, value, ttlMs) ==
  LET full == Len(c.map) >= c.max
      kept == IF full THEN mapDeleteAt(c.map, Len(c.map)) ELSE c.map
      entry == [key |-> key, value |-> value, born |-> 0,
                expiresAt |-> IF ttlMs # 0 THEN c.now + ttlMs ELSE 0]
  IN [c EXCEPT !.map = mapSet(kept, key, entry, c.sets + 1),
               !.sets = c.sets + 1, !.evicted = @ \/ full,
               !.last = [op |-> "set", key |-> key,
                         result |-> [kind |-> "value", value |-> value]]]

\* SimpleCache.set
cacheSet(c, key, value, ttlMs) ==
  LET full == Len(c.map) >= c.max
      kept == IF full THEN mapDeleteAt(c.map, 1) ELSE c.map
      entry == [key |-> key, value |-> value, born |-> 0,
                expiresAt |-> IF ttlMs # 0 THEN c.now + ttlMs ELSE 0]
  IN [c EXCEPT !.map = mapSet(kept, key, entry, c.sets + 1),
               !.sets = c.sets + 1, !.evicted = @ \/ full,
               !.last = [op |-> "set", key |-> key,
                         result |-> [kind |-> "value", value |-> value]]]

InitCache ==
  /\ RenderInit
  /\ gifIn = [layers |-> <<>>, ok |-> {}] /\ gifOut = Null
  /\ mwc = NoCall /\ cmp = NoCall /\ fb = NoCall /\ sem = NoCall /\ hp = NoCall
  /\ \E max \in 1..CacheMax : cache = newCache(max, 1)

CacheGet(key) ==
  /\ cache # NoCall
  /\ cache' = cacheGet(cache, key)
  /\ UNCHANGED <<mwc, cmp, fb, sem, hp, renderVars, gifVars>>

\* Every set() call stores a value of its own, named by the call's number.
CacheSet(key, ttlMs) ==
  /\ cache # NoCall /\ cache.sets < MaxSets
  /\ cache' = cacheSet(cache, key, cache.sets + 1, ttlMs)
  /\ UNCHANGED <<mwc, cmp, fb, sem, hp, renderVars, gifVars>>

\* Date.now() moves on.
CacheTick ==
  /\ cache # NoCall /\ cache.now < MaxTime
  /\ cache' = [cache EXCEPT !.now = @ + 1]
  /\ UNCHANGED <<mwc, cmp, fb, sem, hp, renderVars, gifVars>>

NextCache ==
  \/ \E key \in CacheKeys : CacheGet(key)
  \/ \E key \in CacheKeys, ttlMs \in CacheTtls : CacheSet(key, ttlMs)
  \/ CacheTick

SpecCache == InitCache /\ [][NextCache]_vars


\* ---------------------------------- the fingerprint and the compose arguments
\* Payloads with draw rectangles, a background colour and gifOptions, which
\* the job lifecycle above leaves out.  A number 0 and a string "" also stand
\* for a field the request leaves out: the source reads these fields with
\* `||`, which treats the two alike.
DEFAULT_GIF_DELAY_MS == 180

\* a || b on numbers and on strings.
OrNum(a, b) == IF a # 0 THEN a ELSE b
OrStr(a, b) == IF a # "" THEN a ELSE b

\* A draw rectangle; a layer or frame without one has draw = Undefined.
Rect(x, y, w, h) == [kind |-> "rect", x |-> x, y |-> y, w |-> w, h |-> h]
\* draw?.f || 0
drawField(draw, f) == IF Truthy(draw) THEN draw[f] ELSE 0

DFrame(url, draw) == [url |-> url, draw |-> draw]
DLayer(type, key, url, draw, frames) ==
  [type |-> type, key |-> key, url |-> url, draw |-> draw, frames |-> frames]
GifOptions(delayMs, backgroundColorHex) ==
  [kind |-> "options", delayMs |-> delayMs, repeat |-> 0, quality |-> 0,
   transparent |-> FALSE, transparentColorHex |-> "",
   backgroundColorHex |-> backgroundColorHex]
DPayload(width, format, layers, backgroundColorHex, gifOptions) ==
  [guild |-> "g", user |-> "u", width |-> width, height |-> width,
   format |-> format, layers |-> layers,
   backgroundColorHex |-> backgroundColorHex, gifOptions |-> gifOptions]

\* The requests compared: one static layer, or one animated layer of one
\* frame, with every choice of rectangles, size, format, colour and options.
HashDraws == {Undefined, Rect(0, 0, 20, 0), Rect(5, 0, 20, 0)}
HashLayerLists ==
  { <<DLayer("floor", "Wood 01", NoUrl, d, <<>>)>> : d \in HashDraws }
  \cup { <<DLayer("pet_gif_frames", "", NoUrl, ld, <<DFrame(PetA1, fd)>>)>> :
           ld \in HashDraws, fd \in HashDraws }
HashGifOptions == {Undefined, GifOptions(0, ""), GifOptions(DEFAULT_GIF_DELAY_MS, "#000")}
HashPayloads ==
  { DPayload(w, f, ls, bg, o) :
      w \in {0, DEFAULT_SIZE}, f \in {"", "gif"}, ls \in HashLayerLists,
      bg \in {"", "#fff"}, o \in HashGifOptions }

\* stableHashPayload on these payloads: the record whose JSON text is hashed.
hashDraw(draw, dx, dy, dw, dh) ==
  [x |-> OrNum(drawField(draw, "x"), dx), y |-> OrNum(drawField(draw, "y"), dy),
   w |-> OrNum(drawField(draw, "w"), dw), h |-> OrNum(drawField(draw, "h"), dh)]

hashDrawnLayer(l, w, h) ==
  LET base == hashDraw(l.draw, 0, 0, w, h)
  IN IF isFramesLayer(l)
     THEN [type |-> l.type, key |-> l.key, url |-> l.url, draw |-> base,
           frames |-> [n \in 1..Len(l.frames) |->
                         [url |-> l.frames[n].url,
                          draw |-> hashDraw(l.frames[n].draw, base.x, base.y, base.w, base.h)]]]
     ELSE [type |-> l.type, key |-> l.key, url |-> l.url, draw |-> base]

hashGifOptions(o) ==
  IF Truthy(o)
  THEN [delayMs |-> o.delayMs, repeat |-> o.repeat, quality |-> o.quality,
        transparent |-> o.transparent, transparentColorHex |-> o.transparentColorHex,
        backgroundColorHex |-> o.backgroundColorHex]
  ELSE Undefined

stableHashDrawn(payload) ==
  LET w == sizeOf(payload.width)
      h == sizeOf(payload.height)
  IN [size |-> <<w, h>>,
      layers |-> [i \in 1..Len(payload.layers) |-> hashDrawnLayer(payload.layers[i], w, h)],
      format |-> IF payload.format = "" THEN "png" ELSE payload.format,
      gifOptions |-> hashGifOptions(payload.gifOptions)]

\* The loop building resolvedLayers, the draw rectangles kept.
resolveDrawnOne(l) ==
  IF isFramesLayer(l) THEN <<l>>
  ELSE LET url == IF l.url # NoUrl THEN l.url ELSE resolveCdnUrlByLayer(l)
       IN IF url = NoUrl THEN <<>>
          ELSE <<DLayer("static", "", url, l.draw, <<>>)>>

RECURSIVE resolveDrawn(_)
resolveDrawn(layersIn) ==
  IF layersIn = <<>> THEN <<>>
  ELSE resolveDrawnOne(Head(layersIn)) \o resolveDrawn(Tail(layersIn))

\* The arguments of ctx.drawImage for a rectangle d on a canvas of w by h.
drawImageRect(d, w, h) ==
  [x |-> OrNum(d.x, 0), y |-> OrNum(d.y, 0), w |-> OrNum(d.w, w), h |-> OrNum(d.h, h)]

\* layer.draw || { x: 0, y: 0, w: width, h: height }
layerRect(layer, w, h) ==
  drawImageRect(IF Truthy(layer.draw) THEN layer.draw ELSE Rect(0, 0, w, h), w, h)

\* fr.draw || layer.draw || { x: 0, y: 0, w: width, h: height }
frameRect(fr, layer, w, h) ==
  drawImageRect(IF Truthy(fr.draw) THEN fr.draw
                ELSE IF Truthy(layer.draw) THEN layer.draw
                ELSE Rect(0, 0, w, h), w, h)

\* What composePng draws for a layer: nothing without a url.
pngInput(layer, w, h) ==
  IF layer.url = NoUrl THEN <<>>
  ELSE <<[kind |-> "static", url |-> layer.url, draw |-> layerRect(layer, w, h)]>>

\* What composeGif draws for a layer; `fallback` is what composePng draws for
\* it when no frame of any layer loads.
gifInput(layer, w, h) ==
  IF isFramesLayer(layer) /\ Len(layer.frames) > 0
  THEN <<[kind |-> "frames",
          frames |-> [n \in 1..Len(layer.frames) |->
                        [url |-> layer.frames[n].url,
                         draw |-> frameRect(layer.frames[n], layer, w, h)]],
          fallback |-> pngInput(layer, w, h)]>>
  ELSE pngInput(layer, w, h)

RECURSIVE pngInputs(_, _, _)
pngInputs(layers, w, h) ==
  IF layers = <<>> THEN <<>>
  ELSE pngInput(Head(layers), w, h) \o pngInputs(Tail(layers), w, h)

RECURSIVE gifInputs(_, _, _)
gifInputs(layers, w, h) ==
  IF layers = <<>> THEN <<>>
  ELSE gifInput(Head(layers), w, h) \o gifInputs(Tail(layers), w, h)

\* The options composeGif works with: payload.gifOptions || {} and its defaults.
gifOptionsUsed(o) ==
  LET opt(f, none) == IF Truthy(o) THEN o[f] ELSE none
  IN [delayMs |-> OrNum(opt("delayMs", 0), DEFAULT_GIF_DELAY_MS),
      repeat |-> opt("repeat", 0),
      quality |-> OrNum(opt("quality", 0), 10),
      transparent |-> opt("transparent", FALSE),
      transparentColorHex |-> OrStr(opt("transparentColorHex", ""), "#ff00ff"),
      backgroundColorHex |-> opt("backgroundColorHex", "")]

\* The compose call of renderPromise: the compositor, the canvas, what is
\* drawn where, the background and the options.
composeArgs(payload) ==
  LET w == sizeOf(payload.width)
      h == sizeOf(payload.height)
      resolvedLayers == resolveDrawn(payload.layers)
  IN IF wantsGifOf(payload) /\ hasFramesOf(resolvedLayers)
     THEN [fn |-> "composeGif", width |-> w, height |-> h,
           layers |-> gifInputs(resolvedLayers, w, h),
           options |-> gifOptionsUsed(payload.gifOptions)]
     ELSE [fn |-> "composePng", width |-> w, height |-> h,
           layers |-> pngInputs(resolvedLayers, w, h),
           backgroundHex |->
             OrStr(payload.backgroundColorHex,
                   IF Truthy(payload.gifOptions)
                   THEN payload.gifOptions.backgroundColorHex ELSE "")]

\* Two accepted requests, neither yet at its render.
InitHash ==
  /\ RenderInit
  /\ gifIn = [layers |-> <<>>, ok |-> {}] /\ gifOut = Null
  /\ mwc = NoCall /\ cmp = NoCall /\ fb = NoCall /\ cache = NoCall /\ sem = NoCall
  /\ \E p \in HashPayloads, q \in HashPayloads :
       /\ validate(p) = "" /\ validate(q) = ""
       /\ hp = [fn |-> "hash", payload |-> <<p, q>>,
                cacheKey |-> <<Undefined, Undefined>>,
                args |-> <<Undefined, Undefined>>]

\* The task of request i computes its fingerprint.
Fingerprint(i) ==
  /\ hp # NoCall /\ hp.cacheKey[i] = Undefined
  /\ hp' = [hp EXCEPT !.cacheKey[i] = stableHashDrawn(hp.payload[i])]
  /\ UNCHANGED <<mwc, cmp, fb, cache, sem, renderVars, gifVars>>

\* The render of request i reaches its compose call.
ComposeArgs(i) ==
  /\ hp # NoCall /\ hp.cacheKey[i] # Undefined /\ hp.args[i] = Undefined
  /\ hp' = [hp EXCEPT !.args[i] = composeArgs(hp.payload[i])]
  /\ UNCHANGED <<mwc, cmp, fb, cache, sem, renderVars, gifVars>>

NextHash ==
  \/ \E i \in 1..2 : Fingerprint(i)
  \/ \E i \in 1..2 : ComposeArgs(i)

SpecHash == InitHash /\ [][NextHash]_vars


\* ------------------------------------------------------------------- claims
statusOf(id) == IF id \in Accepted THEN jobs[id].status ELSE "unknown"
Terminal(id) == statusOf(id) \in {"done", "error"}
Rendering(id) == renderPromise[id].state = "pending"
HoldsPermit(id) == pc[id] \in {"acquired", "compose", "write"}

\* C1: what GET /jobs/:id returns for a job only moves from pending to done
\* or from pending to error, and the record of a done or error job is never
\* written again by any step of any render task.
C1_StatusMonotone ==
  [][\A id \in JobIds :
       /\ (id \in Accepted => id \in Accepted')
       /\ (statusOf(id) = "pending" => statusOf(id)' \in {"pending", "done", "error"})
       /\ (Terminal(id) => poll(id)' = poll(id))]_vars

\* A leader ended in error while a follower of it is still at work.
C1_Witness ==
  \E a, b \in Accepted :
    /\ statusOf(a) = "error" /\ statusOf(b) = "pending"
    /\ joined[b] = a /\ pc[b] = "compose"

\* C2: a job k submitted while job j of the same fingerprint is rendering,
\* whose render then succeeds: j's is the only render of the fingerprint at
\* work, k never composes, and both end done with the same url.
C2_DedupOneCompose ==
  \A k \in Accepted : \A j \in inFlightAtSubmit[k] :
    (renderPromise[j].state = "resolved" /\ pc[j] = "end" /\ pc[k] = "end")
      => /\ inFlightAtSubmit[k] = {j}
         /\ ~fetched[k].ran
         /\ statusOf(j) = "done" /\ statusOf(k) = "done"
         /\ jobs[k].url = jobs[j].url

\* C3: no two jobs of one fingerprint have a render task (a renderPromise
\* that has not settled) at the same time.
C3_OneRenderPerKey ==
  \A a, b \in Accepted :
    (a # b /\ Rendering(a) /\ Rendering(b)) => cacheKeyOf(a) # cacheKeyOf(b)

\* C4: the render tasks holding a permit are at most MAX_CONCURRENCY, and
\* activeRenders stays within 0..MAX_CONCURRENCY.
C4_SemaphoreBound ==
  /\ Cardinality({j \in JobIds : HoldsPermit(j)}) <= MAX_CONCURRENCY
  /\ activeRenders >= 0
  /\ activeRenders <= MAX_CONCURRENCY

\* Every permit is taken and another render waits for one.
C4_Witness ==
  /\ activeRenders = MAX_CONCURRENCY
  /\ waitQueue # <<>>
  /\ \E j \in JobIds : pc[j] = "compose"

\* C5: every accepted job eventually leaves status pending.
C5_EventuallyTerminal ==
  \A j \in JobIds : (statusOf(j) = "pending") ~> Terminal(j)

\* A job waits on the semaphore while another waits on a renderPromise.
C5_Witness ==
  /\ \E j \in JobIds : pc[j] = "queued"
  /\ \E f \in JobIds : pc[f] = "joined"

\* C6: a job whose compose ran is never in error because a layer or frame
\* failed to load: its error, if any, is the encoder's or the file write's,
\* whatever subset of its urls failed, and without such an error it ends done.
C6_LayerFailureNeverError ==
  \A j \in Accepted :
    fetched[j].ran =>
      /\ renderPromise[j].state = "rejected"
           => renderPromise[j].error \in {"EncodeError", "IOError"}
      /\ statusOf(j) = "error" => jobs[j].error \in {"EncodeError", "IOError"}
      /\ (pc[j] = "end" /\ renderPromise[j].state # "rejected") => statusOf(j) = "done"

\* A job of two layers ended done although none of its urls loaded.
C6_Witness ==
  \E j \in Accepted :
    /\ statusOf(j) = "done" /\ fetched[j].ran /\ fetched[j].ok = {}
    /\ Len(jobs[j].payload.layers) = 2

\* C7: a job whose own render failed (encoder or file write) is never done
\* and ends in error with the failure's message, and no job that awaited its
\* renderPromise got a url from it.
C7_RenderFailureIsError ==
  \A j \in Accepted :
    renderPromise[j].state = "rejected" =>
      /\ statusOf(j) # "done"
      /\ pc[j] = "end" => (statusOf(j) = "error" /\ jobs[j].error = renderPromise[j].error
                           /\ jobs[j].error # "")
      /\ \A f \in Accepted :
           (joined[f] = j /\ statusOf(f) = "done")
             => (renderPromise[f].state = "resolved" /\ jobs[f].url = renderPromise[f].url)

\* A leader's file write failed while a follower awaited it; the leader ended in error.
C7_Witness ==
  \E j, f \in Accepted :
    /\ statusOf(j) = "error" /\ jobs[j].error = "IOError"
    /\ joined[f] = j /\ pc[f] = "end"

\* C8: a follower whose leader's render failed renders itself, and ends done
\* exactly when its own render succeeds and in error exactly when its own
\* render fails.
C8_FollowerRetries ==
  \A f \in Accepted :
    (joined[f] # 0 /\ renderPromise[joined[f]].state = "rejected") =>
      /\ pc[f] = "joined" => statusOf(f) = "pending"
      /\ pc[f] # "joined" => renderPromise[f].state # "none"
      /\ statusOf(f) = "done" => renderPromise[f].state = "resolved"
      /\ statusOf(f) = "error" => renderPromise[f].state = "rejected"
      /\ pc[f] = "end" => Terminal(f)

\* A follower of a failed leader ended done by its own render.
C8_Witness ==
  \E f \in Accepted :
    /\ joined[f] # 0 /\ statusOf(joined[f]) = "error"
    /\ statusOf(f) = "done" /\ fetched[f].ran

\* The frames of the animated layers of a payload.
FrameUrls(payload) ==
  UNION { SeqToSet(payload.layers[i].frames) :
            i \in {n \in 1..Len(payload.layers) : isFramesLayer(payload.layers[n])} }

GifLoaded(l, f) ==
  gifIn.layers[l].frames[f] # NoUrl /\ gifIn.layers[l].frames[f] \in gifIn.ok
\* The number of frames of layer l that loaded, and the n-th of them.
GifSurvivors(l) ==
  IF isFramesLayer(gifIn.layers[l])
  THEN Cardinality({f \in 1..Len(gifIn.layers[l].frames) : GifLoaded(l, f)})
  ELSE 0
GifNthSurvivor(l, n) ==
  LET f == CHOOSE g \in 1..Len(gifIn.layers[l].frames) :
             GifLoaded(l, g) /\ Cardinality({h \in 1..g : GifLoaded(l, h)}) = n
  IN gifIn.layers[l].frames[f]
\* The images of layer l among those drawn in a frame.
GifDrawnOf(l, frame) ==
  SelectSeq(frame, LAMBDA img : img \in SeqToSet(gifIn.layers[l].frames))

\* C10: when a frame of an animated layer survives, composeGif appends as
\* many frames as the longest surviving animated layer has, and in output
\* frame i an animated layer with k surviving frames draws its surviving
\* frame number i mod k, and nothing else.
C10_GifFrames ==
  LET L == 1..Len(gifIn.layers)
      longest == MaxOfSeq([l \in L |-> GifSurvivors(l)])
  IN (gifOut # Null /\ longest > 0) =>
       /\ ~gifOut.threw
       /\ gifOut.format = "gif"
       /\ Len(gifOut.frames) = longest
       /\ \A i \in 1..Len(gifOut.frames) : \A l \in L :
            GifDrawnOf(l, gifOut.frames[i]) =
              IF GifSurvivors(l) = 0 THEN <<>>
              ELSE <<GifNthSurvivor(l, ((i - 1) % GifSurvivors(l)) + 1)>>

\* A call in which a layer that lost a frame is shorter than another and
\* wraps around in the middle of its cycle.
C10_Witness ==
  /\ gifOut # Null
  /\ \E a, b \in 1..Len(gifIn.layers) :
       /\ GifSurvivors(a) > GifSurvivors(b) /\ GifSurvivors(b) > 0
       /\ GifSurvivors(b) < Len(gifIn.layers[b].frames)
       /\ GifSurvivors(a) % GifSurvivors(b) # 0


\* The settle order of the last mapWithConcurrency call was not the items' order.
OutOfOrder ==
  mwc # NoCall /\ \E a, b \in 1..Len(mwc.order) : a < b /\ mwc.order[a] > mwc.order[b]

\* The layer of the compose call an image drawn belongs to.
DrawLayerOf(img) ==
  CHOOSE l \in 1..Len(cmp.layers) :
    img = cmp.layers[l].url \/ img \in SeqToSet(cmp.layers[l].frames)
\* Layer l loaded in the compose call: its url, or for an animated layer of a
\* GIF one of its frames.
DrawLoaded(l) ==
  LET layer == cmp.layers[l]
  IN IF cmp.out.format = "gif" /\ isFramesLayer(layer)
     THEN \E f \in 1..Len(layer.frames) :
            layer.frames[f] # NoUrl /\ layer.frames[f] \in cmp.ok
     ELSE layer.url # NoUrl /\ layer.url \in cmp.ok

\* C11: in composePng and in every frame of composeGif the layers drawn are
\* the input layers that loaded, in declaration order, whatever the order in
\* which the parallel mappers settled.
C11_DrawOrder ==
  (cmp # NoCall /\ cmp.phase = "done") =>
    \A f \in 1..Len(cmp.out.frames) :
      [n \in 1..Len(cmp.out.frames[f]) |-> DrawLayerOf(cmp.out.frames[f][n])]
        = SortedSeq({l \in 1..Len(cmp.layers) : DrawLoaded(l)})

\* A composePng call drew two layers or more, skipped one, and its mappers
\* settled out of order.
C11_Witness ==
  /\ cmp # NoCall /\ cmp.phase = "done" /\ cmp.out.format = "png"
  /\ Len(cmp.out.frames[1]) >= 2
  /\ Len(cmp.out.frames[1]) < Len(cmp.layers)
  /\ OutOfOrder


\* Two payloads that agree on every field stableHashPayload names.
SameNamedFields(p, q) ==
  /\ p.width = q.width /\ p.height = q.height
  /\ p.format = q.format
  /\ p.layers = q.layers

\* An artifact of the fingerprint is in out/.
ArtifactExists(cacheKey) ==
  OutUrl(cacheKey, "gif") \in outDir \/ OutUrl(cacheKey, "png") \in outDir

\* C12: a submission that differs from an earlier accepted job's payload only
\* in guild, user or fields the normalization does not name has that job's
\* fingerprint, and it is served from that job's artifact or from the render
\* in flight: it starts no render of its own.
C12_SameFingerprint ==
  [][\A j \in Accepted :
       LET k == Len(jobs) + 1
       IN (Len(jobs') = k /\ statusOf(j) # "error"
             /\ SameNamedFields(jobs[j].payload, jobs'[k].payload))
            => /\ stableHashPayload(jobs'[k].payload) = cacheKeyOf(j)
               /\ renderPromise'[k] = NoPromise
               /\ pc'[k] \in {"joined", "end"}
               /\ pc'[k] = "end" =>
                    (ArtifactExists(cacheKeyOf(j)) /\ jobs'[k].status = "done")
               /\ pc'[k] = "joined" => cacheKeyOf(j) \in DOMAIN inFlightByKey]_vars

\* A job of another guild and user, with an unknown field, awaits the render
\* of the first job.
C12_Witness ==
  \E j, k \in Accepted :
    /\ joined[k] = j /\ Rendering(j)
    /\ jobs[j].payload.guild # jobs[k].payload.guild
    /\ jobs[j].payload.user # jobs[k].payload.user
    /\ DOMAIN jobs[j].payload # DOMAIN jobs[k].payload


\* A payload that breaks one of the rules of validation.
ViolatesValidation(p) ==
  \/ "layers" \notin DOMAIN p
  \/ p.guild = "" \/ p.user = ""
  \/ (p.width # 0 /\ p.width > MAX_WIDTH) \/ (p.height # 0 /\ p.height > MAX_HEIGHT)
  \/ Len(p.layers) > MAX_LAYERS
  \/ \E i \in 1..Len(p.layers) :
       p.layers[i].type = "pet_gif_frames" /\ Len(p.layers[i].frames) > MAX_FRAMES

\* C13: a submission that violates validation is answered with an error and
\* no jobId and leaves the registry, the in-flight table and the semaphore as
\* they were; a submission that does not is accepted; so every job that
\* enters the registry is within the four limits.
C13_ValidationRejects ==
  [][response' # response =>
       IF ViolatesValidation(response'.payload)
       THEN /\ response'.status = 400
            /\ response'.error # ""
            /\ "jobId" \notin DOMAIN response'
            /\ UNCHANGED <<jobs, inFlightByKey, activeRenders, waitQueue,
                           renderPromise, pc>>
       ELSE /\ response'.status = 200
            /\ response'.jobId = Len(jobs) + 1
            /\ Len(jobs') = Len(jobs) + 1
            /\ jobs'[Len(jobs')].payload = response'.payload]_vars

\* A payload with too many frames was rejected while a render was under way.
C13_Witness ==
  /\ response.status = 400 /\ response.error = "Too many frames"
  /\ \E j \in Accepted : Rendering(j) /\ pc[j] = "compose"


\* Both artifacts of a fingerprint are in out/.
BothArtifacts(cacheKey) ==
  OutUrl(cacheKey, "gif") \in outDir /\ OutUrl(cacheKey, "png") \in outDir

\* C14: a job accepted while an artifact of its fingerprint exists is done at
\* once with that artifact's url and format, the .gif when both exist; no
\* compose runs, no permit is taken and the in-flight table is not touched.
C14_ArtifactHit ==
  [][LET k == Len(jobs) + 1
     IN (Len(jobs') = k /\ ArtifactExists(stableHashPayload(jobs'[k].payload))) =>
          LET cacheKey == stableHashPayload(jobs'[k].payload)
              ext == IF OutUrl(cacheKey, "gif") \in outDir THEN "gif" ELSE "png"
          IN /\ jobs'[k].status = "done"
             /\ jobs'[k].url = OutUrl(cacheKey, ext)
             /\ jobs'[k].format = ext
             /\ pc'[k] = "end"
             /\ renderPromise'[k] = NoPromise /\ ~fetched'[k].ran
             /\ UNCHANGED <<inFlightByKey, activeRenders, waitQueue, renderPromise,
                            fetched, outDir, microtasks>>]_vars

\* A job was served the .gif of a fingerprint of which the .png exists too.
C14_Witness ==
  \E k \in Accepted :
    /\ statusOf(k) = "done" /\ renderPromise[k] = NoPromise /\ joined[k] = 0
    /\ BothArtifacts(cacheKeyOf(k))
    /\ jobs[k].url = OutUrl(cacheKeyOf(k), "gif")

\* C16: every entry of the in-flight table is the renderPromise of a render
\* that is still running (or has just settled, its task about to resume): once
\* the task that inserted an entry has completed, the entry is gone.
C16_EntriesAreRunning ==
  \A cacheKey \in DOMAIN inFlightByKey :
    LET j == inFlightByKey[cacheKey]
    IN renderPromise[j].state = "pending" \/ pc[j] = "settled"


\* C17: permits are granted in the order of the acquire() calls: the callers
\* granted so far are the first callers, those still waiting are the rest, in
\* call order, and nobody waits while a permit is free.
C17_FifoWaiters ==
  sem # NoCall =>
    /\ sem.granted = SubSeq(sem.called, 1, Len(sem.granted))
    /\ waitQueue = SubSeq(sem.called, Len(sem.granted) + 1, Len(sem.called))
    /\ waitQueue # <<>> => activeRenders = MAX_CONCURRENCY

\* release() handed a permit to a waiter while another one still waits.
C17_Witness ==
  /\ sem # NoCall
  /\ sem.wakes >= 1
  /\ Len(sem.called) = MaxSemCalls


\* C18: a mapWithConcurrency call never rejects; once every mapper has
\* settled it is resolved, and its result has one slot per item, slot i
\* holding what mapper(items[i]) returned, or undefined when it threw.
C18_MapResolves ==
  mwc # NoCall =>
    /\ mwc.promise # "rejected"
    /\ Len(mwc.results) = Len(mwc.mapped)
    /\ Len(mwc.order) = Len(mwc.mapped) => mwc.promise = "resolved"
    /\ mwc.promise = "resolved" =>
         \A i \in 1..Len(mwc.mapped) :
           mwc.results[i] = IF mwc.mapped[i] = Thrown THEN Undefined ELSE mwc.mapped[i]

\* A call resolved although a mapper threw and the mappers settled out of order.
C18_Witness ==
  /\ mwc # NoCall /\ mwc.promise = "resolved"
  /\ \E i \in 1..Len(mwc.mapped) : mwc.mapped[i] = Thrown
  /\ \E i \in 1..Len(mwc.mapped) : Truthy(mwc.mapped[i])
  /\ OutOfOrder

\* C19: the mappers started and not settled are never more than the limit,
\* every item's mapper is started once, in the items' order, and while items
\* are left to start every slot is in use.
C19_MapBounded ==
  mwc # NoCall =>
    /\ Cardinality(mwc.running) <= mwc.limit
    /\ mwc.active = Cardinality(mwc.running)
    /\ \A i \in 1..Len(mwc.mapped) :
         mwc.starts[i] = IF i <= mwc.index THEN 1 ELSE 0
    /\ mwc.promise = "resolved" => \A i \in 1..Len(mwc.mapped) : mwc.starts[i] = 1
    /\ mwc.index < Len(mwc.mapped) => Cardinality(mwc.running) = mwc.limit

\* A mapper settled, another was started in its place, and an item is still
\* left to start.
C19_Witness ==
  /\ mwc # NoCall
  /\ mwc.order # <<>>
  /\ mwc.index < Len(mwc.mapped)
  /\ mwc.index > mwc.limit


\* The url ends in .png or .gif (in any case), a query string possibly
\* following: position of such an extension, as a set.
ImageExtAt(url) ==
  {i \in 1..Len(url) : url[i] \in PngExts \cup GifExts
                         /\ (i = Len(url) \/ url[i + 1] = "?")}
\* alt is url with the extension at position i swapped.
SwappedAt(url, alt, i) ==
  /\ Len(alt) = Len(url)
  /\ \A h \in 1..Len(url) : h # i => alt[h] = url[h]
  /\ (url[i] \in PngExts /\ alt[i] = ".gif") \/ (url[i] \in GifExts /\ alt[i] = ".png")

\* C15: fetchImageWithFallback fetches the url with the extension swapped
\* exactly when the fetch of the url failed and the url ends in .png or .gif,
\* a query string possibly following; it fetches at most twice; it succeeds
\* when one of the fetches succeeds and fails when both fail or when the
\* first fails and the url has neither extension.
C15_FetchFallback ==
  fb # NoCall =>
    /\ Len(fb.attempts) <= 2
    /\ fb.attempts[1] = fb.url
    /\ Len(fb.attempts) = 2 <=> (fb.first = "failed" /\ ImageExtAt(fb.url) # {})
    /\ Len(fb.attempts) = 2 =>
         \E i \in ImageExtAt(fb.url) : SwappedAt(fb.url, fb.attempts[2], i)
    /\ fb.promise = "resolved" <=> (fb.first = "ok" \/ fb.second = "ok")
    /\ fb.promise = "rejected" <=>
         \/ fb.first = "failed" /\ fb.second = "failed"
         \/ fb.first = "failed" /\ ImageExtAt(fb.url) = {}

\* The fetch of a .gif url with a query string failed and the fetch of the
\* .png url succeeded.
C15_Witness ==
  /\ fb # NoCall /\ fb.promise = "resolved"
  /\ fb.first = "failed" /\ fb.second = "ok"
  /\ Len(fb.url) = 3 /\ fb.url[2] = ".gif" /\ fb.url[3] = "?"


\* The set() calls whose keys are in the map.
BornIn(map) == {map[i].born : i \in 1..Len(map)}
\* The key's entry in the map has an expiry time and the clock is past it.
ExpiredIn(c, key) ==
  \E i \in 1..Len(c.map) :
    c.map[i].key = key /\ c.map[i].expiresAt # 0 /\ c.map[i].expiresAt < c.now

\* C20: a SimpleCache of capacity max >= 1 never stores more than max
\* entries; a set on a full cache removes the entry whose key was inserted
\* earliest, and no other; a set on a cache that is not full removes none;
\* a get of a key whose entry's expiry time has passed removes that entry
\* and returns a miss.
C20_CacheBounded ==
  [][(cache # NoCall /\ cache' # NoCall) =>
       /\ Len(cache'.map) <= cache'.max
       /\ (cache'.sets # cache.sets /\ Len(cache.map) >= cache.max) =>
            /\ BornIn(cache.map) \ BornIn(cache'.map) =
                 {CHOOSE b \in BornIn(cache.map) : \A o \in BornIn(cache.map) : b <= o}
            /\ cache'.sets \in BornIn(cache'.map) \/ Len(cache'.map) < cache.max
       /\ (cache'.sets # cache.sets /\ Len(cache.map) < cache.max) =>
            BornIn(cache.map) \subseteq BornIn(cache'.map)
       /\ (cache'.sets = cache.sets /\ cache'.now = cache.now
             /\ ExpiredIn(cache, cache'.last.key)) =>
            /\ keyIndex(cache'.map, cache'.last.key) = 0
            /\ cache'.last.result = Undefined
            /\ Len(cache'.map) = Len(cache.map) - 1]_vars

\* A full cache of the largest capacity after a set on a full cache and a
\* get of an expired entry, the last operation being such a get.
C20_Witness ==
  /\ cache # NoCall /\ cache.max = CacheMax
  /\ cache.evicted /\ cache.expired
  /\ cache.last.op = "get" /\ cache.last.result = Undefined
  /\ Len(cache.map) = cache.max - 1


\* Both requests of SpecHash have their fingerprint and their compose call.
BothPrepared ==
  /\ hp # NoCall
  /\ \A i \in 1..2 : hp.cacheKey[i] # Undefined /\ hp.args[i] # Undefined

\* C21: two accepted payloads with the same fingerprint hand the compositor
\* the same inputs: canvas size, resolved layer urls in order, the draw
\* rectangle used for each layer and frame, background colour, GIF options.
C21_SameFingerprintSameInputs ==
  (BothPrepared /\ hp.cacheKey[1] = hp.cacheKey[2]) => hp.args[1] = hp.args[2]


\* How job j came to be done: by an artifact-cache hit, by joining the render
\* of another job, or by its own render.
DoneByHit(j) == statusOf(j) = "done" /\ renderPromise[j] = NoPromise /\ joined[j] = 0
DoneByJoin(j) == statusOf(j) = "done" /\ renderPromise[j] = NoPromise /\ joined[j] # 0
DoneByRender(j) == statusOf(j) = "done" /\ renderPromise[j] # NoPromise

====
